---- MODULE Spec2Model ----
(***************************************************************************)
(* Model of the beevik/prefixtree package.                                 *)
(*                                                                         *)
(* Two revisions of the package are modelled side by side and driven by    *)
(* the same sequence of Add calls:                                         *)
(*   - src/prefixtree.go: nodes carry a `terminal` flag; lookups are Find  *)
(*     and FindAll.  Its state is the variable `tree`.                     *)
(*   - src/unnamed/part_002 (lines 344-663, the generic Tree[V]): nodes    *)
(*     carry the stored `key`, a node is terminal when key != ""; lookups  *)
(*     are FindKey, FindValue, FindKeyValue, FindKeys, FindValues and      *)
(*     FindKeyValues.  Its state is the variable `gtree`; its definitions  *)
(*     that share a name with prefixtree.go carry the suffix G.            *)
(*                                                                         *)
(* Strings are sequences of byte values; a *Tree is the record of the node *)
(* it points to (the tree is a strict ownership hierarchy, so a node is    *)
(* the value of its subtree).  Slice indices are 0-based as in the source, *)
(* sequence positions are index + 1.                                       *)
(*                                                                         *)
(* Where the statements of one Add matter (two goroutines calling Add on   *)
(* the same tree, the number of loop turns), Add of src/prefixtree.go is   *)
(* also modelled statement by statement, on a heap of nodes and link       *)
(* arrays held in the variable `heap`.                                     *)
(***************************************************************************)
EXTENDS Integers, Sequences, FiniteSets, TLC

VARIABLES tree, gtree, stored, adds, nadds, last, heap, goroutine, overlapped

vars == <<tree, gtree, stored, adds, nadds, last, heap, goroutine, overlapped>>

\* the state of Add calls that run step by step (see the section on the
\* statements of Tree.Add): the nodes and link arrays they share, the local
\* variables of each goroutine, and whether two calls have overlapped
stepVars == <<heap, goroutine, overlapped>>

\* ------------------------------------------------------------------ bounds
MaxKeyLen == 3
MaxAdds == 3

Alphabet == {1, 2}
Values == {1, 2}

\* The keys and prefixes the calls draw from: the strings over Alphabet of
\* length at most MaxKeyLen in which only the last byte may differ from 1
\* ("", a, b, aa, ab, aaa, aab, ...).  They hold keys that are prefixes of
\* other keys, keys that part in the middle of a link and links of every
\* length up to MaxKeyLen.
RECURSIVE Strs(_)
Strs(n) ==
  IF n = 0 THEN {<<>>}
  ELSE LET shorter == Strs(n - 1)
       IN shorter \cup {Append(s, c) : s \in {x \in shorter : Len(x) = n - 1}, c \in Alphabet}

Keys == {s \in Strs(MaxKeyLen) : \A i \in 1..(Len(s) - 1) : s[i] = 1}
Prefixes == Keys

\* ------------------------------------------------------- values and errors
Nil == 0
NoErr == "<nil>"
ErrPrefixNotFound == "prefixtree: prefix not found"
ErrPrefixAmbiguous == "prefixtree: prefix ambiguous"

\* ------------------------------------------------------------ pure helpers
minInt(a, b) == IF a < b THEN a ELSE b

maxInt(a, b) == IF a > b THEN a ELSE b

\* s[i:] and s[:i] of Go
From(s, i) == SubSeq(s, i + 1, Len(s))

Upto(s, i) == SubSeq(s, 1, i)

RECURSIVE matchingFrom(_, _, _)
matchingFrom(s1, s2, i) ==
  IF i < minInt(Len(s1), Len(s2)) /\ s1[i + 1] = s2[i + 1]
  THEN matchingFrom(s1, s2, i + 1)
  ELSE i

matchingChars(s1, s2) == matchingFrom(s1, s2, 0)

\* Go's s1 >= s2 on strings: byte-wise lexicographic order
StrGE(s1, s2) ==
  LET m == matchingChars(s1, s2)
  IN IF m = Len(s2) THEN TRUE
     ELSE IF m = Len(s1) THEN FALSE
     ELSE s1[m + 1] > s2[m + 1]

\* sort.Search(len(links), func(i) { return links[i].str >= k }): binary search
RECURSIVE SearchFrom(_, _, _, _)
SearchFrom(links, k, i, j) ==
  IF i < j
  THEN LET h == (i + j) \div 2
       IN IF ~StrGE(links[h + 1].str, k)
          THEN SearchFrom(links, k, h + 1, j)
          ELSE SearchFrom(links, k, i, h)
  ELSE i

Search(links, k) == SearchFrom(links, k, 0, Len(links))

\* InsertLink that appends the new link instead of inserting it at ix
\* insertion one position after the sorted position
InsertLinkAfter(links, ix, l) ==
  LET at == minInt(ix + 1, Len(links))
  IN SubSeq(links, 1, at) \o <<l>> \o SubSeq(links, at + 1, Len(links))

\* insertion that ignores the sorted position and puts the link first
InsertLinkAtFront(links, ix, l) == <<l>> \o links

InsertLinkAtEnd(links, ix, l) == Append(links, l)

\* t.links = append(t.links[:ix], append([]link{l}, t.links[ix:]...)...)
InsertLink(links, ix, l) == Upto(links, ix) \o <<l>> \o From(links, ix)

\* ------------------------------------------------ src/prefixtree.go: Tree
\* New(): an empty prefix tree
New == [links |-> <<>>, value |-> Nil, terminal |-> FALSE, descendants |-> 0]

\* the nil *Tree returned with ErrPrefixNotFound
NilTree == [links |-> <<>>, value |-> Nil, terminal |-> FALSE, descendants |-> -1]

\* t.terminal, t.value = true, value
MarkTerminal(t, value) == [t EXCEPT !.terminal = TRUE, !.value = value]

\* a new subtree that is not marked terminal
NewLeafNonTerminal(value) ==
  [links |-> <<>>, value |-> value, terminal |-> FALSE, descendants |-> 1]

\* subtree := &Tree{value: value, terminal: true, descendants: 1}
NewLeaf(value) == [links |-> <<>>, value |-> value, terminal |-> TRUE, descendants |-> 1]

\* a split child that does not take over the counter of the node it replaces
SplitChildUncounted(splitLink, splitIndex) ==
  [links |-> <<[str |-> From(splitLink.str, splitIndex), tree |-> splitLink.tree]>>,
   value |-> Nil,
   terminal |-> FALSE,
   descendants |-> 0]

\* a split child whose link keeps the whole label instead of its remainder s2
SplitChildWholeLabel(splitLink, splitIndex) ==
  [links |-> <<[str |-> splitLink.str, tree |-> splitLink.tree]>>,
   value |-> Nil,
   terminal |-> FALSE,
   descendants |-> splitLink.tree.descendants]

\* child := &Tree{links: []link{{s2, splitLink.tree}},
\*                descendants: splitLink.tree.descendants}
SplitChild(splitLink, splitIndex) ==
  [links |-> <<[str |-> From(splitLink.str, splitIndex), tree |-> splitLink.tree]>>,
   value |-> Nil,
   terminal |-> FALSE,
   descendants |-> splitLink.tree.descendants]

\* The inner loop of Add over the links li..lm: the first link that is fully
\* matched is descended into, the first that is partially matched is split.
RECURSIVE AddScan(_, _, _, _)
AddScan(links, key, li, lm) ==
  IF li > lm THEN [kind |-> "none", li |-> li, m |-> 0]
  ELSE LET m == matchingChars(links[li + 1].str, key)
       IN IF m = Len(links[li + 1].str) THEN [kind |-> "descend", li |-> li, m |-> m]
          ELSE IF m > 0 THEN [kind |-> "split", li |-> li, m |-> m]
          ELSE AddScan(links, key, li + 1, lm)

\* Tree.Add: one turn of outerLoop at node t with the remaining key, followed
\* by the turns below it.  The result is the node after the call.
RECURSIVE Add(_, _, _)
Add(t, key, value) ==
  LET t1 == [t EXCEPT !.descendants = @ + 1]
  IN IF Len(key) = 0 THEN MarkTerminal(t1, value)
     ELSE LET ix == Search(t1.links, key)
              sc == AddScan(t1.links, key, maxInt(ix - 1, 0),
                            minInt(ix, Len(t1.links) - 1))
              link == t1.links[sc.li + 1]
          IN CASE sc.kind = "descend" ->
                    [t1 EXCEPT !.links[sc.li + 1].tree = Add(link.tree, From(key, sc.m), value)]
               [] sc.kind = "none" ->
                    [t1 EXCEPT !.links = InsertLink(@, ix, [str |-> key, tree |-> NewLeaf(value)])]
               [] sc.kind = "split" ->
                    [t1 EXCEPT !.links[sc.li + 1] =
                       [str |-> Upto(link.str, sc.m),
                        tree |-> Add(SplitChild(link, sc.m), From(key, sc.m), value)]]

\* AtNode with the ambiguity rule of InsideLink applied at the node as well
AtNodeAmbiguousFirst(t) ==
  IF t.descendants > 1 THEN [st |-> t, err |-> ErrPrefixAmbiguous]
  ELSE IF t.terminal THEN [st |-> t, err |-> NoErr]
  ELSE [st |-> t, err |-> ErrPrefixAmbiguous]

\* AtNode that reports a non-terminal node as a missing prefix
AtNodeNotFound(t) ==
  IF t.terminal THEN [st |-> t, err |-> NoErr]
  ELSE [st |-> NilTree, err |-> ErrPrefixNotFound]

\* findSubtree, remaining prefix empty: the node, unambiguous only if terminal
AtNode(t) ==
  IF t.terminal THEN [st |-> t, err |-> NoErr]
  ELSE [st |-> t, err |-> ErrPrefixAmbiguous]

\* InsideLink without the case of a terminal target
InsideLinkNoTerminal(link) ==
  IF link.tree.descendants > 1 THEN [st |-> link.tree, err |-> ErrPrefixAmbiguous]
  ELSE [st |-> NilTree, err |-> ErrPrefixNotFound]

\* findSubtree, remaining prefix consumed inside link.str
InsideLink(link) ==
  IF link.tree.descendants > 1 THEN [st |-> link.tree, err |-> ErrPrefixAmbiguous]
  ELSE IF link.tree.terminal THEN [st |-> link.tree, err |-> NoErr]
  ELSE [st |-> NilTree, err |-> ErrPrefixNotFound]

\* start, stop := 0, len(t.links)-1: every link is a candidate
LinearCandidates(links) == [start |-> 0, stop |-> Len(links) - 1]

\* binary search that keeps the link at the search position only
BinaryCandidatesAtIndexOnly(links, prefix) ==
  LET ix == Search(links, prefix)
  IN [start |-> ix, stop |-> minInt(ix, Len(links) - 1)]

\* the link at the first label >= prefix and the link before it
BinaryCandidates(links, prefix) ==
  LET ix == Search(links, prefix)
  IN [start |-> maxInt(0, ix - 1), stop |-> minInt(ix, Len(links) - 1)]

\* the candidate links of findSubtree: all of them, or the two around the
\* binary-search position when the node has 20 or more links
Candidates(links, prefix) ==
  IF Len(links) >= 20 THEN BinaryCandidates(links, prefix)
  ELSE LinearCandidates(links)

RECURSIVE findSubtree(_, _)
RECURSIVE FindScan(_, _, _, _)
\* innerLoop of findSubtree over the candidate links i..stop
FindScan(t, prefix, i, stop) ==
  IF i > stop THEN [st |-> NilTree, err |-> ErrPrefixNotFound]
  ELSE LET link == t.links[i + 1]
           m == matchingChars(prefix, link.str)
       IN IF m = 0 THEN FindScan(t, prefix, i + 1, stop)
          ELSE IF m = Len(link.str) THEN findSubtree(link.tree, From(prefix, m))
          ELSE IF m = Len(prefix) THEN InsideLink(link)
          ELSE FindScan(t, prefix, i + 1, stop)

findSubtree(t, prefix) ==
  IF Len(prefix) = 0 THEN AtNode(t)
  ELSE LET c == Candidates(t.links, prefix)
       IN FindScan(t, prefix, c.start, c.stop)

Find(t, prefix) ==
  LET r == findSubtree(t, prefix)
  IN IF r.err # NoErr THEN [value |-> Nil, err |-> r.err]
     ELSE [value |-> r.st.value, err |-> NoErr]

RECURSIVE appendDescendantValues(_, _)
RECURSIVE AppendLinksValues(_, _, _)
\* the loop of appendDescendantValues over t.links[i:]
AppendLinksValues(t, i, values) ==
  IF i < Len(t.links)
  THEN AppendLinksValues(t, i + 1, appendDescendantValues(t.links[i + 1].tree, values))
  ELSE values

appendDescendantValues(t, values) ==
  AppendLinksValues(t, 0, IF t.terminal THEN Append(values, t.value) ELSE values)

\* FindAll that stops at the resolved node when the resolution is unique
FindAllResolvedOnly(t, prefix) ==
  LET r == findSubtree(t, prefix)
  IN IF r.err = ErrPrefixNotFound THEN <<>>
     ELSE IF r.st.terminal /\ r.err = NoErr THEN <<r.st.value>>
     ELSE appendDescendantValues(r.st, <<>>)

FindAll(t, prefix) ==
  LET r == findSubtree(t, prefix)
  IN IF r.err = ErrPrefixNotFound THEN <<>>
     ELSE appendDescendantValues(r.st, <<>>)

\* ------------------------------- src/unnamed/part_002 (generic): Tree[V]
\* New[V](): an empty prefix tree
NewG == [key |-> <<>>, value |-> Nil, links |-> <<>>, descendants |-> 0]

\* the nil *Tree[V] returned with ErrPrefixNotFound
NilTreeG == [key |-> <<>>, value |-> Nil, links |-> <<>>, descendants |-> -1]

isTerminal(t) == t.key # <<>>

\* sort.Search(len(t.links), func(i) { return t.links[i].keyseg >= k })
RECURSIVE SearchFromG(_, _, _, _)
SearchFromG(links, k, i, j) ==
  IF i < j
  THEN LET h == (i + j) \div 2
       IN IF ~StrGE(links[h + 1].keyseg, k)
          THEN SearchFromG(links, k, h + 1, j)
          ELSE SearchFromG(links, k, i, h)
  ELSE i

SearchG(links, k) == SearchFromG(links, k, 0, Len(links))

\* t.key, t.value = key, value
MarkTerminalG(t, key, value) == [t EXCEPT !.key = key, !.value = value]

\* child := &Tree[V]{key: key, value: value, links: nil, descendants: 1}
NewLeafG(key, value) == [key |-> key, value |-> value, links |-> <<>>, descendants |-> 1]

\* child := &Tree[V]{key: "", value: empty, links: []link[V]{{k2, splitLink.tree}},
\*                   descendants: splitLink.tree.descendants}
SplitChildG(splitLink, splitIndex) ==
  [key |-> <<>>,
   value |-> Nil,
   links |-> <<[keyseg |-> From(splitLink.keyseg, splitIndex), tree |-> splitLink.tree]>>,
   descendants |-> splitLink.tree.descendants]

RECURSIVE AddScanG(_, _, _, _)
AddScanG(links, k, li, lm) ==
  IF li > lm THEN [kind |-> "none", li |-> li, m |-> 0]
  ELSE LET m == matchingChars(links[li + 1].keyseg, k)
       IN IF m = Len(links[li + 1].keyseg) THEN [kind |-> "descend", li |-> li, m |-> m]
          ELSE IF m > 0 THEN [kind |-> "split", li |-> li, m |-> m]
          ELSE AddScanG(links, k, li + 1, lm)

\* Tree[V].Add: one turn of outerLoop at node t with the remaining key k of
\* key, followed by the turns below it.
RECURSIVE AddFromG(_, _, _, _)
AddFromG(t, key, k, value) ==
  LET t1 == [t EXCEPT !.descendants = @ + 1]
  IN IF Len(k) = 0 THEN MarkTerminalG(t1, key, value)
     ELSE LET ix == SearchG(t1.links, k)
              sc == AddScanG(t1.links, k, maxInt(ix - 1, 0),
                             minInt(ix, Len(t1.links) - 1))
              link == t1.links[sc.li + 1]
          IN CASE sc.kind = "descend" ->
                    [t1 EXCEPT !.links[sc.li + 1].tree =
                       AddFromG(link.tree, key, From(k, sc.m), value)]
               [] sc.kind = "none" ->
                    [t1 EXCEPT !.links =
                       InsertLink(@, ix, [keyseg |-> k, tree |-> NewLeafG(key, value)])]
               [] sc.kind = "split" ->
                    [t1 EXCEPT !.links[sc.li + 1] =
                       [keyseg |-> Upto(link.keyseg, sc.m),
                        tree |-> AddFromG(SplitChildG(link, sc.m), key, From(k, sc.m), value)]]

\* k := key
AddG(t, key, value) == AddFromG(t, key, key, value)

AtNodeG(t) ==
  IF isTerminal(t) THEN [st |-> t, err |-> NoErr]
  ELSE [st |-> t, err |-> ErrPrefixAmbiguous]

InsideLinkG(link) ==
  IF link.tree.descendants > 1 THEN [st |-> link.tree, err |-> ErrPrefixAmbiguous]
  ELSE IF isTerminal(link.tree) THEN [st |-> link.tree, err |-> NoErr]
  ELSE [st |-> NilTreeG, err |-> ErrPrefixNotFound]

CandidatesG(links, prefix) ==
  IF Len(links) >= 20
  THEN LET ix == SearchG(links, prefix)
       IN [start |-> maxInt(0, ix - 1), stop |-> minInt(ix, Len(links) - 1)]
  ELSE [start |-> 0, stop |-> Len(links) - 1]

RECURSIVE findSubtreeG(_, _)
RECURSIVE FindScanG(_, _, _, _)
FindScanG(t, prefix, i, stop) ==
  IF i > stop THEN [st |-> NilTreeG, err |-> ErrPrefixNotFound]
  ELSE LET link == t.links[i + 1]
           m == matchingChars(prefix, link.keyseg)
       IN IF m = 0 THEN FindScanG(t, prefix, i + 1, stop)
          ELSE IF m = Len(link.keyseg) THEN findSubtreeG(link.tree, From(prefix, m))
          ELSE IF m = Len(prefix) THEN InsideLinkG(link)
          ELSE FindScanG(t, prefix, i + 1, stop)

findSubtreeG(t, prefix) ==
  IF Len(prefix) = 0 THEN AtNodeG(t)
  ELSE LET c == CandidatesG(t.links, prefix)
       IN FindScanG(t, prefix, c.start, c.stop)

\* FindKey that answers with the prefix it was given
FindKeyEchoesPrefix(t, prefix) ==
  LET r == findSubtreeG(t, prefix)
  IN IF r.err # NoErr THEN [key |-> <<>>, err |-> r.err]
     ELSE [key |-> prefix, err |-> NoErr]

FindKey(t, prefix) ==
  LET r == findSubtreeG(t, prefix)
  IN IF r.err # NoErr THEN [key |-> <<>>, err |-> r.err]
     ELSE [key |-> r.st.key, err |-> NoErr]

\* FindKeyValue that hands out the entry of the node an ambiguous prefix
\* resolved to
FindKeyValueOfAmbiguousNode(t, prefix) ==
  LET r == findSubtreeG(t, prefix)
  IN IF r.err = ErrPrefixNotFound
     THEN [kv |-> [Key |-> <<>>, Value |-> Nil], err |-> r.err]
     ELSE [kv |-> [Key |-> r.st.key, Value |-> r.st.value], err |-> r.err]

FindKeyValue(t, prefix) ==
  LET r == findSubtreeG(t, prefix)
  IN IF r.err # NoErr THEN [kv |-> [Key |-> <<>>, Value |-> Nil], err |-> r.err]
     ELSE [kv |-> [Key |-> r.st.key, Value |-> r.st.value], err |-> NoErr]

FindValue(t, prefix) ==
  LET r == findSubtreeG(t, prefix)
  IN IF r.err # NoErr THEN [value |-> Nil, err |-> r.err]
     ELSE [value |-> r.st.value, err |-> NoErr]

RECURSIVE appendDescendantKeyValues(_, _)
RECURSIVE AppendLinksKeyValues(_, _, _)
\* the loop of appendDescendantKeyValues over t.links[i:]
AppendLinksKeyValues(t, i, kv) ==
  IF i < Len(t.links)
  THEN AppendLinksKeyValues(t, i + 1, appendDescendantKeyValues(t.links[i + 1].tree, kv))
  ELSE kv

appendDescendantKeyValues(t, kv) ==
  AppendLinksKeyValues(t, 0,
    IF isTerminal(t) THEN Append(kv, [Key |-> t.key, Value |-> t.value]) ELSE kv)

RECURSIVE appendDescendantKeys(_, _)
RECURSIVE AppendLinksKeys(_, _, _)
AppendLinksKeys(t, i, keys) ==
  IF i < Len(t.links)
  THEN AppendLinksKeys(t, i + 1, appendDescendantKeys(t.links[i + 1].tree, keys))
  ELSE keys

appendDescendantKeys(t, keys) ==
  AppendLinksKeys(t, 0, IF isTerminal(t) THEN Append(keys, t.key) ELSE keys)

RECURSIVE appendDescendantValuesG(_, _)
RECURSIVE AppendLinksValuesG(_, _, _)
AppendLinksValuesG(t, i, values) ==
  IF i < Len(t.links)
  THEN AppendLinksValuesG(t, i + 1, appendDescendantValuesG(t.links[i + 1].tree, values))
  ELSE values

appendDescendantValuesG(t, values) ==
  AppendLinksValuesG(t, 0, IF isTerminal(t) THEN Append(values, t.value) ELSE values)

\* FindKeys that lists the descendants of the resolved node in every case
FindKeysWithDescendants(t, prefix) ==
  LET r == findSubtreeG(t, prefix)
  IN IF r.err = ErrPrefixNotFound THEN <<>>
     ELSE appendDescendantKeys(r.st, <<>>)

FindKeys(t, prefix) ==
  LET r == findSubtreeG(t, prefix)
  IN IF r.err = ErrPrefixNotFound THEN <<>>
     ELSE IF isTerminal(r.st) /\ r.err # ErrPrefixAmbiguous THEN <<r.st.key>>
     ELSE appendDescendantKeys(r.st, <<>>)

FindKeyValues(t, prefix) ==
  LET r == findSubtreeG(t, prefix)
  IN IF r.err = ErrPrefixNotFound THEN <<>>
     ELSE IF isTerminal(r.st) /\ r.err # ErrPrefixAmbiguous
          THEN <<[Key |-> r.st.key, Value |-> r.st.value]>>
     ELSE appendDescendantKeyValues(r.st, <<>>)

FindValues(t, prefix) ==
  LET r == findSubtreeG(t, prefix)
  IN IF r.err = ErrPrefixNotFound THEN <<>>
     ELSE IF isTerminal(r.st) /\ r.err # ErrPrefixAmbiguous THEN <<r.st.value>>
     ELSE appendDescendantValuesG(r.st, <<>>)

\* ------------------------------------------- Tree.Add statement by statement
\* A node of the heap is a Tree struct whose links field names a link array
\* (0 for the nil slice); a link's tree field names a node.  Node 1 is the
\* root.  Arrays are never freed: a link pointer taken before the slice was
\* replaced still reads and writes the array it was taken from.
Goroutines == {1, 2}

NilSlice == 0

HeapNode(links, value, terminal, descendants) ==
  [links |-> links, value |-> value, terminal |-> terminal,
   descendants |-> descendants]

\* New(): the heap holding an empty root
NewHeap == [nodes |-> <<HeapNode(NilSlice, Nil, FALSE, 0)>>, arrays |-> <<>>]

\* a goroutine that is not inside a call
NotCalling ==
  [pc |-> "idle", t |-> 0, key |-> <<>>, value |-> Nil, d |-> 0, ix |-> 0,
   arr |-> 0, li |-> 0, m |-> 0, s1 |-> <<>>, child |-> 0, turns |-> 0,
   whole |-> <<>>, calls |-> 0]

AtRest ==
  /\ heap = NewHeap
  /\ goroutine = [g \in Goroutines |-> NotCalling]
  /\ overlapped = FALSE

\* ------------------------------------------------------------ the program
\* The state: the two trees, and a record of the calls made so far:
\*   stored[k]  the value last added for k (Nil when k was never added)
\*   adds[k]    the number of Add(k, _) calls
\*   nadds      the number of Add calls
\*   last       the last call and what it returned
Call(op, arg, key, value, err, list) ==
  [op |-> op, arg |-> arg, key |-> key, value |-> value, err |-> err, list |-> list]

Init ==
  /\ tree = New
  /\ gtree = NewG
  /\ stored = [k \in Keys |-> Nil]
  /\ adds = [k \in Keys |-> 0]
  /\ nadds = 0
  /\ last = Call("New", <<>>, <<>>, Nil, NoErr, <<>>)
  /\ AtRest

\* tree.Add(key, value), on both revisions
AddOp(key, value) ==
  /\ nadds < MaxAdds
  /\ tree' = Add(tree, key, value)
  /\ gtree' = AddG(gtree, key, value)
  /\ stored' = [stored EXCEPT ![key] = value]
  /\ adds' = [adds EXCEPT ![key] = @ + 1]
  /\ nadds' = nadds + 1
  /\ last' = Call("Add", <<>>, <<>>, Nil, NoErr, <<>>)
  /\ UNCHANGED stepVars

\* what each lookup returns on trees t (prefixtree.go) and g (generic)
Lookup(op, t, g, prefix) ==
  CASE op = "Find" ->
         LET r == Find(t, prefix) IN Call(op, prefix, <<>>, r.value, r.err, <<>>)
    [] op = "FindAll" ->
         Call(op, prefix, <<>>, Nil, NoErr, FindAll(t, prefix))
    [] op = "FindKey" ->
         LET r == FindKey(g, prefix) IN Call(op, prefix, r.key, Nil, r.err, <<>>)
    [] op = "FindValue" ->
         LET r == FindValue(g, prefix) IN Call(op, prefix, <<>>, r.value, r.err, <<>>)
    [] op = "FindKeyValue" ->
         LET r == FindKeyValue(g, prefix)
         IN Call(op, prefix, r.kv.Key, r.kv.Value, r.err, <<>>)
    [] op = "FindKeys" ->
         Call(op, prefix, <<>>, Nil, NoErr, FindKeys(g, prefix))
    [] op = "FindValues" ->
         Call(op, prefix, <<>>, Nil, NoErr, FindValues(g, prefix))
    [] op = "FindKeyValues" ->
         Call(op, prefix, <<>>, Nil, NoErr, FindKeyValues(g, prefix))

FindOp(prefix) ==
  /\ last' = Lookup("Find", tree, gtree, prefix)
  /\ UNCHANGED <<tree, gtree, stored, adds, nadds, heap, goroutine, overlapped>>

\* a FindAll that counts its visit in the root's descendants counter
FindAllOpCounting(prefix) ==
  /\ last' = Lookup("FindAll", tree, gtree, prefix)
  /\ tree' = [tree EXCEPT !.descendants = @ + 1]
  /\ UNCHANGED <<gtree, stored, adds, nadds, heap, goroutine, overlapped>>

FindAllOp(prefix) ==
  /\ last' = Lookup("FindAll", tree, gtree, prefix)
  /\ UNCHANGED <<tree, gtree, stored, adds, nadds, heap, goroutine, overlapped>>

FindKeyOp(prefix) ==
  /\ last' = Lookup("FindKey", tree, gtree, prefix)
  /\ UNCHANGED <<tree, gtree, stored, adds, nadds, heap, goroutine, overlapped>>

FindValueOp(prefix) ==
  /\ last' = Lookup("FindValue", tree, gtree, prefix)
  /\ UNCHANGED <<tree, gtree, stored, adds, nadds, heap, goroutine, overlapped>>

FindKeyValueOp(prefix) ==
  /\ last' = Lookup("FindKeyValue", tree, gtree, prefix)
  /\ UNCHANGED <<tree, gtree, stored, adds, nadds, heap, goroutine, overlapped>>

FindKeysOp(prefix) ==
  /\ last' = Lookup("FindKeys", tree, gtree, prefix)
  /\ UNCHANGED <<tree, gtree, stored, adds, nadds, heap, goroutine, overlapped>>

FindValuesOp(prefix) ==
  /\ last' = Lookup("FindValues", tree, gtree, prefix)
  /\ UNCHANGED <<tree, gtree, stored, adds, nadds, heap, goroutine, overlapped>>

FindKeyValuesOp(prefix) ==
  /\ last' = Lookup("FindKeyValues", tree, gtree, prefix)
  /\ UNCHANGED <<tree, gtree, stored, adds, nadds, heap, goroutine, overlapped>>

Next ==
  \/ \E key \in Keys, value \in Values : AddOp(key, value)
  \/ \E prefix \in Prefixes : FindOp(prefix)
  \/ \E prefix \in Prefixes : FindAllOp(prefix)
  \/ \E prefix \in Prefixes : FindKeyOp(prefix)
  \/ \E prefix \in Prefixes : FindValueOp(prefix)
  \/ \E prefix \in Prefixes : FindKeyValueOp(prefix)
  \/ \E prefix \in Prefixes : FindKeysOp(prefix)
  \/ \E prefix \in Prefixes : FindValuesOp(prefix)
  \/ \E prefix \in Prefixes : FindKeyValuesOp(prefix)

Spec == Init /\ [][Next]_vars

\* the program restricted to Add and the single-result lookups
NextSingle ==
  \/ \E key \in Keys, value \in Values : AddOp(key, value)
  \/ \E prefix \in Prefixes : FindOp(prefix)
  \/ \E prefix \in Prefixes : FindKeyOp(prefix)
  \/ \E prefix \in Prefixes : FindValueOp(prefix)

SpecSingle == Init /\ [][NextSingle]_vars

\* the program restricted to Add and the lookups that list every match
NextAll ==
  \/ \E key \in Keys, value \in Values : AddOp(key, value)
  \/ \E prefix \in Prefixes : FindAllOp(prefix)
  \/ \E prefix \in Prefixes : FindKeysOp(prefix)
  \/ \E prefix \in Prefixes : FindValuesOp(prefix)
  \/ \E prefix \in Prefixes : FindKeyValuesOp(prefix)

SpecAll == Init /\ [][NextAll]_vars

\* the generic revision restricted to Add and its single-result lookups
NextKeyValue ==
  \/ \E key \in Keys, value \in Values : AddOp(key, value)
  \/ \E prefix \in Prefixes : FindKeyOp(prefix)
  \/ \E prefix \in Prefixes : FindValueOp(prefix)
  \/ \E prefix \in Prefixes : FindKeyValueOp(prefix)

SpecKeyValue == Init /\ [][NextKeyValue]_vars

\* ------------------------------------------------- vocabulary of the claims
IsPrefix(p, k) == Len(p) <= Len(k) /\ Upto(k, Len(p)) = p

StoredKeys == {k \in Keys : adds[k] > 0}

Matching(p) == {k \in StoredKeys : IsPrefix(p, k)}

SingleOps == {"Find", "FindValue"}

LookupOps == {"Find", "FindAll", "FindKey", "FindValue", "FindKeyValue",
              "FindKeys", "FindValues", "FindKeyValues"}

\* the number of terminal nodes in the subtree of t, t included
RECURSIVE CountTerminals(_)
RECURSIVE CountTerminalsFrom(_, _)
CountTerminalsFrom(t, i) ==
  IF i < Len(t.links)
  THEN CountTerminals(t.links[i + 1].tree) + CountTerminalsFrom(t, i + 1)
  ELSE 0

CountTerminals(t) == (IF t.terminal THEN 1 ELSE 0) + CountTerminalsFrom(t, 0)

RECURSIVE DescendantsExact(_)
DescendantsExact(t) ==
  /\ t.descendants = CountTerminals(t)
  /\ \A i \in 1..Len(t.links) : DescendantsExact(t.links[i].tree)

\* the trees obtained by adding the keys of S, each once with its stored
\* value, in one fixed order that depends on S alone
RECURSIVE BuildTree(_)
BuildTree(S) ==
  IF S = {} THEN New
  ELSE LET k == CHOOSE x \in S : TRUE
       IN Add(BuildTree(S \ {k}), k, stored[k])

RECURSIVE BuildTreeG(_)
BuildTreeG(S) ==
  IF S = {} THEN NewG
  ELSE LET k == CHOOSE x \in S : TRUE
       IN AddG(BuildTreeG(S \ {k}), k, stored[k])

\* the step is an Add of key k, which had been added before
ReAdds(k) == adds[k] > 0 /\ adds'[k] = adds[k] + 1

\* prefix q resolves uniquely, to the node of the stored key k
ResolvesTo(q, k) ==
  /\ IsPrefix(q, k)
  /\ findSubtree(tree, q).err = NoErr
  /\ findSubtree(tree, k).err = NoErr
  /\ findSubtree(tree, q).st = findSubtree(tree, k).st

ResolvesToG(q, k) ==
  /\ IsPrefix(q, k)
  /\ FindKey(gtree, q) = [key |-> k, err |-> NoErr]

\* ------------------------------------------------------------------ claims

\* C1: after any sequence of Add calls, Find of a prefix p
\* succeeds exactly when p is a stored key or exactly one stored key starts
\* with p, and then returns the value last added for that key.
C1_FindSucceedsIffUniqueMatch ==
  last.op = "Find" =>
    LET p == last.arg
        M == Matching(p)
    IN /\ (last.err = NoErr) <=> (p \in StoredKeys \/ Cardinality(M) = 1)
       /\ last.err = NoErr =>
            last.value = stored[IF p \in StoredKeys THEN p ELSE CHOOSE k \in M : TRUE]

\* C2: a stored key k that is a proper prefix of another stored key resolves,
\* by Find(k), to k's value with no error, whatever the order of the Adds.
C2_ExactMatchPrecedence ==
  (/\ last.op = "Find"
   /\ last.arg \in StoredKeys
   /\ \E k2 \in StoredKeys : k2 # last.arg /\ IsPrefix(last.arg, k2))
  => (last.err = NoErr /\ last.value = stored[last.arg])

C2_Witness ==
  /\ last.op = "Find"
  /\ last.arg \in StoredKeys
  /\ \E k2 \in StoredKeys : k2 # last.arg /\ IsPrefix(last.arg, k2)
  /\ last.err = NoErr
  /\ Len(last.arg) > 0

\* C3: Find / FindValue returns ErrPrefixAmbiguous for p only if at least two
\* stored keys start with p.
C3_AmbiguousOnlyIfTwoMatch ==
  (last.op \in SingleOps /\ last.err = ErrPrefixAmbiguous)
  => Cardinality(Matching(last.arg)) >= 2

\* C4: Find returns ErrPrefixNotFound for p if and only if no stored key
\* starts with p.
C4_NotFoundIffNoMatch ==
  last.op = "Find" => ((last.err = ErrPrefixNotFound) <=> (Matching(last.arg) = {}))

\* C5: re-adding a stored key changes the outcome of no lookup: every prefix
\* keeps its error (Find) and its resolved key (FindKey).
C5_ReAddKeepsOutcomes ==
  [][(\E k \in Keys : ReAdds(k)) =>
       \A p \in Prefixes :
         /\ Find(tree', p).err = Find(tree, p).err
         /\ FindKey(gtree', p) = FindKey(gtree, p)]_vars

\* C6: after every Add, the descendants counter of every node equals the
\* number of terminal nodes in the node's subtree, the node included.
C6_DescendantsCountTerminals == DescendantsExact(tree)

\* C7: an Add(k, v) of a key k that was added before makes the exact lookup
\* of k return v, and leaves the exact lookup of every other stored key as
\* it was.
C7_ReAddOverwritesValue ==
  [][\A k \in Keys : ReAdds(k) =>
       /\ Find(tree', k) = [value |-> stored'[k], err |-> NoErr]
       /\ FindValue(gtree', k) = [value |-> stored'[k], err |-> NoErr]
       /\ \A k2 \in StoredKeys \ {k} :
            /\ Find(tree', k2) = Find(tree, k2)
            /\ FindValue(gtree', k2) = FindValue(gtree, k2)]_vars

\* C8: after one Add(key, v) on an empty tree, the single-result lookup of
\* key returns v with no error, for every key, the empty string included.
C8_RoundTrip ==
  (last.op \in SingleOps /\ nadds = 1 /\ adds[last.arg] = 1)
  => (last.err = NoErr /\ last.value = stored[last.arg])

\* C9: when every key was added once, each lookup operation returns, for
\* every prefix, what it returns on the trees built from the same keys and
\* values in one fixed order: the results do not depend on the order of the
\* Adds.
C9_InsertionOrderIndependence ==
  (last.op = "Add" /\ \A k \in Keys : adds[k] <= 1)
  => \A op \in LookupOps, p \in Prefixes :
       Lookup(op, tree, gtree, p)
         = Lookup(op, BuildTree(StoredKeys), BuildTreeG(StoredKeys), p)

C9_Witness ==
  /\ last.op = "Add"
  /\ \A k \in Keys : adds[k] <= 1
  /\ Cardinality(StoredKeys) >= 3
  /\ \E i \in 1..Len(tree.links) :
       /\ ~tree.links[i].tree.terminal
       /\ Len(tree.links[i].tree.links) >= 2

\* C10: if p resolves Ambiguous, every extension q of p that is a prefix of
\* a stored key resolves Ambiguous or Unique (not NotFound); and if such a q
\* resolves Unique to the stored key k, every q2 between q and k resolves
\* Unique to k as well, with the same value.
C10_MonotoneDisambiguation ==
  /\ (last.op = "Find" /\ last.err = ErrPrefixAmbiguous) =>
       \A q \in Prefixes : IsPrefix(last.arg, q) =>
         /\ Matching(q) # {} => Find(tree, q).err # ErrPrefixNotFound
         /\ \A k \in StoredKeys, q2 \in Prefixes :
              (ResolvesTo(q, k) /\ IsPrefix(q, q2) /\ IsPrefix(q2, k))
              => (ResolvesTo(q2, k) /\ Find(tree, q2) = Find(tree, q))
  /\ (last.op = "FindValue" /\ last.err = ErrPrefixAmbiguous) =>
       \A q \in Prefixes : IsPrefix(last.arg, q) =>
         /\ Matching(q) # {} => FindValue(gtree, q).err # ErrPrefixNotFound
         /\ \A k \in StoredKeys, q2 \in Prefixes :
              (ResolvesToG(q, k) /\ IsPrefix(q, q2) /\ IsPrefix(q2, k))
              => (ResolvesToG(q2, k) /\ FindValue(gtree, q2) = FindValue(gtree, q))

C10_Witness ==
  /\ last.op = "Find"
  /\ last.err = ErrPrefixAmbiguous
  /\ \E k \in StoredKeys, q \in Prefixes, q2 \in Prefixes :
       /\ IsPrefix(last.arg, q) /\ q # last.arg
       /\ IsPrefix(q, q2) /\ q2 # q
       /\ IsPrefix(q2, k) /\ q2 # k
       /\ ResolvesTo(q, k)

\* ---------------------------------- Tree.Add, one statement group per step
\* t.links of node n, read through the slice the node holds now
LinksOf(h, n) ==
  IF h.nodes[n].links = NilSlice THEN <<>> ELSE h.arrays[h.nodes[n].links]

\* an unrecovered panic ends the program: nothing runs after it
Running == \A g \in Goroutines : goroutine[g].pc # "panic"

InCall(g) == goroutine[g].pc \notin {"idle", "panic"}

\* return from Add
Returned(g) == [NotCalling EXCEPT !.calls = goroutine[g].calls]

\* the call tree.Add(key, value) by goroutine g: t is the root.  `tree` and
\* `gtree` follow the calls as if each ran alone, in the order they start.
StartAdd(g, key, value) ==
  /\ Running
  /\ goroutine[g].pc = "idle"
  /\ goroutine' = [goroutine EXCEPT ![g] =
       [NotCalling EXCEPT !.pc = "load", !.t = 1, !.key = key, !.value = value,
                          !.whole = key, !.turns = 1,
                          !.calls = goroutine[g].calls + 1]]
  /\ overlapped' = (overlapped \/ \E o \in Goroutines \ {g} : InCall(o))
  /\ tree' = Add(tree, key, value)
  /\ gtree' = AddG(gtree, key, value)
  /\ stored' = [stored EXCEPT ![key] = value]
  /\ adds' = [adds EXCEPT ![key] = @ + 1]
  /\ nadds' = nadds + 1
  /\ last' = Call("Add", <<>>, <<>>, Nil, NoErr, <<>>)
  /\ UNCHANGED heap

\* t.descendants++ : the load
LoadCount(g) ==
  /\ Running
  /\ goroutine[g].pc = "load"
  /\ goroutine' = [goroutine EXCEPT
       ![g].d = heap.nodes[goroutine[g].t].descendants, ![g].pc = "store"]
  /\ UNCHANGED <<tree, gtree, stored, adds, nadds, last, heap, overlapped>>

\* t.descendants++ : the store
StoreCount(g) ==
  /\ Running
  /\ goroutine[g].pc = "store"
  /\ heap' = [heap EXCEPT !.nodes[goroutine[g].t].descendants = goroutine[g].d + 1]
  /\ goroutine' = [goroutine EXCEPT ![g].pc = "check"]
  /\ UNCHANGED <<tree, gtree, stored, adds, nadds, last, overlapped>>

\* if len(key) == 0 { t.terminal, t.value = true, value; break }, else the
\* search for the insertion point and innerLoop over the links around it
CheckKey(g) ==
  LET s == goroutine[g]
      links == LinksOf(heap, s.t)
      ix == Search(links, s.key)
      sc == AddScan(links, s.key, maxInt(ix - 1, 0), minInt(ix, Len(links) - 1))
  IN /\ Running
     /\ s.pc = "check"
     /\ IF Len(s.key) = 0
        THEN /\ heap' = [heap EXCEPT !.nodes[s.t].terminal = TRUE,
                                     !.nodes[s.t].value = s.value]
             /\ goroutine' = [goroutine EXCEPT ![g] = Returned(g)]
        ELSE /\ UNCHANGED heap
             /\ goroutine' = [goroutine EXCEPT ![g] =
                  CASE sc.kind = "descend" ->
                         [s EXCEPT !.t = links[sc.li + 1].tree,
                                   !.key = From(s.key, sc.m),
                                   !.turns = s.turns + 1, !.pc = "load"]
                    [] sc.kind = "none" -> [s EXCEPT !.ix = ix, !.pc = "insert"]
                    [] sc.kind = "split" ->
                         [s EXCEPT !.arr = heap.nodes[s.t].links, !.li = sc.li,
                                   !.m = sc.m, !.pc = "split"]]
     /\ UNCHANGED <<tree, gtree, stored, adds, nadds, last, overlapped>>

\* subtree := &Tree{...}; t.links = append(t.links[:ix], append([]link{{key,
\* subtree}}, t.links[ix:]...)...).  append allocates a new array when the
\* slice is full, as the slices of at most two links are that two overlapping
\* Adds meet; when one goroutine runs alone an append in place gives the same
\* links.
InsertLinkStep(g) ==
  LET s == goroutine[g]
      leaf == Len(heap.nodes) + 1
      array == Len(heap.arrays) + 1
  IN /\ Running
     /\ s.pc = "insert"
     /\ heap' = [nodes |-> Append([heap.nodes EXCEPT ![s.t].links = array],
                                  HeapNode(NilSlice, s.value, TRUE, 1)),
                 arrays |-> Append(heap.arrays,
                                   InsertLink(LinksOf(heap, s.t), s.ix,
                                              [str |-> s.key, tree |-> leaf]))]
     /\ goroutine' = [goroutine EXCEPT ![g] = Returned(g)]
     /\ UNCHANGED <<tree, gtree, stored, adds, nadds, last, overlapped>>

\* s1, s2 := splitLink.str[:splitIndex], splitLink.str[splitIndex:] and the
\* allocation of child; slicing past the end of the string panics
SplitAlloc(g) ==
  LET s == goroutine[g]
      e == heap.arrays[s.arr][s.li + 1]
      child == Len(heap.nodes) + 1
      array == Len(heap.arrays) + 1
  IN /\ Running
     /\ s.pc = "split"
     /\ IF s.m > Len(e.str)
        THEN /\ goroutine' = [goroutine EXCEPT ![g].pc = "panic"]
             /\ UNCHANGED heap
        ELSE /\ heap' = [nodes |-> Append(heap.nodes,
                            HeapNode(array, Nil, FALSE, heap.nodes[e.tree].descendants)),
                         arrays |-> Append(heap.arrays,
                            <<[str |-> From(e.str, s.m), tree |-> e.tree]>>)]
             /\ goroutine' = [goroutine EXCEPT ![g].s1 = Upto(e.str, s.m),
                                               ![g].child = child,
                                               ![g].pc = "relabel"]
     /\ UNCHANGED <<tree, gtree, stored, adds, nadds, last, overlapped>>

\* splitLink.str = s1
Relabel(g) ==
  LET s == goroutine[g]
  IN /\ Running
     /\ s.pc = "relabel"
     /\ heap' = [heap EXCEPT !.arrays[s.arr][s.li + 1].str = s.s1]
     /\ goroutine' = [goroutine EXCEPT ![g].pc = "relink"]
     /\ UNCHANGED <<tree, gtree, stored, adds, nadds, last, overlapped>>

\* a relink that continues at the child with the key not shortened
RelinkKeepsKey(g) ==
  LET s == goroutine[g]
  IN /\ Running
     /\ s.pc = "relink"
     /\ heap' = [heap EXCEPT !.arrays[s.arr][s.li + 1].tree = s.child]
     /\ goroutine' = [goroutine EXCEPT ![g].t = s.child,
                                       ![g].turns = s.turns + 1,
                                       ![g].pc = "load"]
     /\ UNCHANGED <<tree, gtree, stored, adds, nadds, last, overlapped>>

\* splitLink.tree = child; t, key = child, key[splitIndex:]
Relink(g) ==
  LET s == goroutine[g]
  IN /\ Running
     /\ s.pc = "relink"
     /\ heap' = [heap EXCEPT !.arrays[s.arr][s.li + 1].tree = s.child]
     /\ goroutine' = [goroutine EXCEPT ![g].t = s.child,
                                       ![g].key = From(s.key, s.m),
                                       ![g].turns = s.turns + 1,
                                       ![g].pc = "load"]
     /\ UNCHANGED <<tree, gtree, stored, adds, nadds, last, overlapped>>

\* the statements of the Add call goroutine g is in
AddStep(g) ==
  \/ LoadCount(g)
  \/ StoreCount(g)
  \/ CheckKey(g)
  \/ InsertLinkStep(g)
  \/ SplitAlloc(g)
  \/ Relabel(g)
  \/ Relink(g)

\* the tree a heap holds below node n
RECURSIVE TreeAt(_, _)
TreeAt(h, n) ==
  LET links == LinksOf(h, n)
  IN [links |-> [i \in 1..Len(links) |->
                   [str |-> links[i].str, tree |-> TreeAt(h, links[i].tree)]],
      value |-> h.nodes[n].value,
      terminal |-> h.nodes[n].terminal,
      descendants |-> h.nodes[n].descendants]

\* ------------------------------------------------ nodes of large degree
\* findSubtree as a function of (tree, prefix), applied to trees whose root
\* has around 20 links (TestLargeDegree): keys <<1>> .. <<n>>, the key of one
\* byte c replaced by one or two longer keys
MaxWide == 22

\* root degrees around the threshold, and the bytes that get the longer keys
WideDegrees == {19, 20, MaxWide}
WideBytes == {1, 10, 19, 20, MaxWide}
WideTails == {<<>>, <<1>>, <<2>>, <<1, 2>>}
WideSpecials ==
  {<<t>> : t \in WideTails}
    \cup {p \in WideTails \X WideTails : p[1] # p[2]}
\* every first byte alone and with one more byte, and longer prefixes under
\* the bytes that can hold longer keys
WidePrefixes ==
  {<<b>> \o t : b \in 0..(MaxWide + 1), t \in {<<>>, <<1>>}}
    \cup {<<b>> \o t : b \in WideBytes,
                        t \in WideTails \cup {<<1, 1>>, <<1, 2, 1>>}}

\* the keys <<1>> .. <<n>> in order, with those of byte c in place of <<c>>
RECURSIVE WideKeysSeq(_, _, _)
WideKeysSeq(n, c, special) ==
  IF n = 0 THEN <<>>
  ELSE WideKeysSeq(n - 1, c, special)
         \o (IF n = c THEN [i \in 1..Len(special) |-> <<c>> \o special[i]]
             ELSE <<(<<n>>)>>)

\* tree.Add(entries[i].key, entries[i].value) for the entries from position i
\* on, the value of an entry being its position; the tree after one Add is
\* computed (as the element of a set) before the next Add is applied to it
RECURSIVE AddAll(_, _, _)
AddAll(t, keys, i) ==
  IF i > Len(keys) THEN t
  ELSE CHOOSE r \in {AddAll(next, keys, i + 1) :
                       next \in {Add(t, keys[i], i)}} : TRUE

RECURSIVE AddAllG(_, _, _)
AddAllG(t, keys, i) ==
  IF i > Len(keys) THEN t
  ELSE CHOOSE r \in {AddAllG(next, keys, i + 1) :
                       next \in {AddG(t, keys[i], i)}} : TRUE

InitWide ==
  \E n \in WideDegrees, c \in WideBytes, special \in WideSpecials :
    /\ c <= n
    /\ LET keys == WideKeysSeq(n, c, special)
           K == {keys[i] : i \in 1..Len(keys)}
       IN /\ tree = AddAll(New, keys, 1)
          /\ gtree = AddAllG(NewG, keys, 1)
          /\ stored = [k \in K |-> CHOOSE i \in 1..Len(keys) : keys[i] = k]
          /\ adds = [k \in K |-> 1]
          /\ nadds = Len(keys)
    /\ last = Call("Add", <<>>, <<>>, Nil, NoErr, <<>>)
    /\ AtRest

NextWide == \E prefix \in WidePrefixes : FindOp(prefix)

SpecWide == InitWide /\ [][NextWide]_vars

\* findSubtree with the candidate links chosen one way at every node
CandidatesBy(mode, links, prefix) ==
  IF mode = "binary" THEN BinaryCandidates(links, prefix)
  ELSE LinearCandidates(links)

RECURSIVE ResolveBy(_, _, _)
RECURSIVE ScanBy(_, _, _, _, _)
ScanBy(mode, t, prefix, i, stop) ==
  IF i > stop THEN [st |-> NilTree, err |-> ErrPrefixNotFound]
  ELSE LET link == t.links[i + 1]
           m == matchingChars(prefix, link.str)
       IN IF m = 0 THEN ScanBy(mode, t, prefix, i + 1, stop)
          ELSE IF m = Len(link.str) THEN ResolveBy(mode, link.tree, From(prefix, m))
          ELSE IF m = Len(prefix) THEN InsideLink(link)
          ELSE ScanBy(mode, t, prefix, i + 1, stop)

ResolveBy(mode, t, prefix) ==
  IF Len(prefix) = 0 THEN AtNode(t)
  ELSE LET c == CandidatesBy(mode, t.links, prefix)
       IN ScanBy(mode, t, prefix, c.start, c.stop)

\* ------------------------------------------------ lookups on a built tree
\* the lookups as functions of (tree, prefix): the tree holds any set of keys,
\* added in ascending order, the value of a key being its position
RECURSIVE KeysInOrder(_)
KeysInOrder(S) ==
  IF S = {} THEN <<>>
  ELSE LET k == CHOOSE x \in S : \A y \in S : StrGE(y, x)
       IN <<k>> \o KeysInOrder(S \ {k})

InitBuilt ==
  \E S \in SUBSET Keys :
    LET keys == KeysInOrder(S)
    IN /\ tree = AddAll(New, keys, 1)
       /\ gtree = AddAllG(NewG, keys, 1)
       /\ stored = [k \in Keys |->
                      IF k \in S THEN CHOOSE i \in 1..Len(keys) : keys[i] = k
                      ELSE Nil]
       /\ adds = [k \in Keys |-> IF k \in S THEN 1 ELSE 0]
       /\ nadds = Len(keys)
       /\ last = Call("Add", <<>>, <<>>, Nil, NoErr, <<>>)
       /\ AtRest

NextLookups ==
  \/ \E prefix \in Prefixes : FindOp(prefix)
  \/ \E prefix \in Prefixes : FindAllOp(prefix)
  \/ \E prefix \in Prefixes : FindKeyOp(prefix)
  \/ \E prefix \in Prefixes : FindValueOp(prefix)
  \/ \E prefix \in Prefixes : FindKeyValueOp(prefix)
  \/ \E prefix \in Prefixes : FindKeysOp(prefix)
  \/ \E prefix \in Prefixes : FindValuesOp(prefix)
  \/ \E prefix \in Prefixes : FindKeyValuesOp(prefix)

SpecLookups == InitBuilt /\ [][NextLookups]_vars

\* ------------------------------------- Tree.Find, one turn of outerLoop per step
\* innerLoop of findSubtree over the candidate links i..stop of one node
RECURSIVE FindTurnScan(_, _, _, _)
FindTurnScan(links, prefix, i, stop) ==
  IF i > stop THEN [kind |-> "none", li |-> i, m |-> 0]
  ELSE LET m == matchingChars(prefix, links[i + 1].str)
       IN IF m = 0 THEN FindTurnScan(links, prefix, i + 1, stop)
          ELSE IF m = Len(links[i + 1].str) THEN [kind |-> "descend", li |-> i, m |-> m]
          ELSE IF m = Len(prefix) THEN [kind |-> "inside", li |-> i, m |-> m]
          ELSE FindTurnScan(links, prefix, i + 1, stop)

\* the call tree.Find(prefix) by goroutine g
StartFind(g, prefix) ==
  /\ Running
  /\ goroutine[g].pc = "idle"
  /\ goroutine' = [goroutine EXCEPT ![g] =
       [NotCalling EXCEPT !.pc = "find", !.t = 1, !.key = prefix,
                          !.whole = prefix, !.turns = 1,
                          !.calls = goroutine[g].calls]]
  /\ UNCHANGED <<tree, gtree, stored, adds, nadds, last, heap, overlapped>>

\* Find returns (st.value, nil) or (nil, err)
FindReturns(g, r) ==
  /\ last' = Call("Find", goroutine[g].whole, <<>>,
                  IF r.err = NoErr THEN r.st.value ELSE Nil, r.err, <<>>)
  /\ goroutine' = [goroutine EXCEPT ![g] = Returned(g)]

\* one turn of outerLoop of findSubtree at node t with the remaining prefix
FindTurn(g) ==
  LET s == goroutine[g]
      links == LinksOf(heap, s.t)
      c == Candidates(links, s.key)
      sc == FindTurnScan(links, s.key, c.start, c.stop)
  IN /\ Running
     /\ s.pc = "find"
     /\ IF Len(s.key) = 0 THEN FindReturns(g, AtNode(TreeAt(heap, s.t)))
        ELSE CASE sc.kind = "descend" ->
                    /\ goroutine' = [goroutine EXCEPT
                         ![g].t = links[sc.li + 1].tree,
                         ![g].key = From(s.key, sc.m),
                         ![g].turns = s.turns + 1]
                    /\ UNCHANGED last
               [] sc.kind = "inside" ->
                    FindReturns(g, InsideLink(
                      [str |-> links[sc.li + 1].str,
                       tree |-> TreeAt(heap, links[sc.li + 1].tree)]))
               [] sc.kind = "none" ->
                    FindReturns(g, [st |-> NilTree, err |-> ErrPrefixNotFound])
     /\ UNCHANGED <<tree, gtree, stored, adds, nadds, heap, overlapped>>

\* one goroutine calling Add and Find, each call run statement by statement;
\* the value of an entry is its position, as in AddAll
NextSteps ==
  \/ \E key \in Keys : nadds < MaxAdds /\ StartAdd(1, key, nadds + 1)
  \/ AddStep(1)
  \/ \E prefix \in Prefixes : StartFind(1, prefix)
  \/ FindTurn(1)

SpecSteps == Init /\ [][NextSteps]_vars

\* ------------------------------------------------ two goroutines calling Add
\* the heap after New() and the Adds of the keys of S, for at most one key
\* (value 1, as AddAll gives it)
StartHeap(S) ==
  IF S = {} THEN NewHeap
  ELSE LET k == CHOOSE x \in S : TRUE
       IN IF k = <<>>
          THEN [nodes |-> <<HeapNode(NilSlice, 1, TRUE, 1)>>, arrays |-> <<>>]
          ELSE [nodes |-> <<HeapNode(1, Nil, FALSE, 1),
                            HeapNode(NilSlice, 1, TRUE, 1)>>,
                arrays |-> <<(<<[str |-> k, tree |-> 2]>>)>>]

\* two goroutines that each call Add once on a shared tree, without a lock
InitConcurrent ==
  \E S \in {{}} \cup {{k} : k \in Keys} :
    /\ heap = StartHeap(S)
    /\ tree = AddAll(New, KeysInOrder(S), 1)
    /\ gtree = AddAllG(NewG, KeysInOrder(S), 1)
    /\ stored = [k \in Keys |-> IF k \in S THEN 1 ELSE Nil]
    /\ adds = [k \in Keys |-> IF k \in S THEN 1 ELSE 0]
    /\ nadds = Cardinality(S)
    /\ last = Call("Add", <<>>, <<>>, Nil, NoErr, <<>>)
    /\ goroutine = [g \in Goroutines |-> NotCalling]
    /\ overlapped = FALSE

NextConcurrent ==
  \/ \E g \in Goroutines, key \in Keys :
       goroutine[g].calls = 0 /\ StartAdd(g, key, g + 1)
  \/ \E g \in Goroutines : AddStep(g)

SpecConcurrent == InitConcurrent /\ [][NextConcurrent]_vars

\* C11: when a prefix resolves Unique, FindKeys / FindValues / FindKeyValues
\* return exactly one entry, the key / value of the resolved node, and leave
\* out the stored keys that extend the prefix.
AllOpsG == {"FindKeys", "FindValues", "FindKeyValues"}

CountIn(list, x) == Cardinality({i \in 1..Len(list) : list[i] = x})

\* the sequence lists one value per key of S: the value last added for it
ListsValuesOf(list, S) ==
  /\ Len(list) = Cardinality(S)
  /\ \A v \in Values : CountIn(list, v) = Cardinality({k \in S : stored[k] = v})

\* the sequence lists every key of S once and nothing else
ListsKeysOf(list, S) ==
  /\ Len(list) = Cardinality(S)
  /\ {list[i] : i \in 1..Len(list)} = S

\* the sequence lists one (key, value) entry per key of S
ListsKeyValuesOf(list, S) ==
  /\ Len(list) = Cardinality(S)
  /\ {list[i] : i \in 1..Len(list)} = {[Key |-> k, Value |-> stored[k]] : k \in S}

\* C12: FindAll(p) returns the values of all stored keys prefixed by p, the
\* keys that extend p included when p is itself a stored key.
C12_FindAllListsEveryMatch ==
  last.op = "FindAll" => ListsValuesOf(last.list, Matching(last.arg))

C12_Witness ==
  /\ last.op = "FindAll"
  /\ last.arg \in StoredKeys
  /\ Cardinality(Matching(last.arg)) >= 2
  /\ Len(last.list) >= 2

\* C13: when the resolution of p is Ambiguous, the find-all operations return
\* one entry for each stored key that starts with p and no other entry.
C13_AmbiguousListsEveryMatch ==
  /\ (last.op = "FindAll" /\ findSubtree(tree, last.arg).err = ErrPrefixAmbiguous)
       => ListsValuesOf(last.list, Matching(last.arg))
  /\ (last.op \in AllOpsG /\ findSubtreeG(gtree, last.arg).err = ErrPrefixAmbiguous)
       => /\ last.op = "FindKeys" => ListsKeysOf(last.list, Matching(last.arg))
          /\ last.op = "FindValues" => ListsValuesOf(last.list, Matching(last.arg))
          /\ last.op = "FindKeyValues"
               => ListsKeyValuesOf(last.list, Matching(last.arg))

\* a key sorts strictly before another, byte-wise
StrLT(s1, s2) == ~StrGE(s1, s2)

\* C14: FindKeys(p) returns keys in strictly ascending byte-wise order with no
\* duplicates, and FindValues / FindKeyValues list their entries in that same
\* key order.
C14_SortedEnumeration ==
  last.op \in AllOpsG =>
    LET ks == FindKeys(gtree, last.arg)
        vs == FindValues(gtree, last.arg)
        kvs == FindKeyValues(gtree, last.arg)
    IN /\ last.op = "FindKeys" =>
            /\ last.list = ks
            /\ \A i \in 1..(Len(ks) - 1) : StrLT(ks[i], ks[i + 1])
            /\ \A i, j \in 1..Len(ks) : i # j => ks[i] # ks[j]
       /\ last.op = "FindValues" =>
            /\ last.list = vs
            /\ Len(vs) = Len(ks)
            /\ \A i \in 1..Len(vs) : vs[i] = stored[ks[i]]
       /\ last.op = "FindKeyValues" =>
            /\ last.list = kvs
            /\ Len(kvs) = Len(ks)
            /\ \A i \in 1..Len(kvs) :
                 kvs[i] = [Key |-> ks[i], Value |-> stored[ks[i]]]

C14_Witness ==
  /\ last.op = "FindKeyValues"
  /\ Len(last.list) >= 3
  /\ \E i \in 1..(Len(last.list) - 1) :
       last.list[i].Value > last.list[i + 1].Value

\* C15: the find-all operations return an empty sequence exactly when no
\* stored key starts with the prefix, a non-empty one otherwise.
C15_EmptyIffNoMatch ==
  last.op \in (AllOpsG \cup {"FindAll"}) =>
    (last.list = <<>> <=> Matching(last.arg) = {})

\* C17: FindKey(p) and FindKeyValue(p) succeed or fail exactly as FindValue(p)
\* does, with the same error; on success the returned key is a stored key that
\* has p as a prefix and the returned value is the value last added for it.
C17_KeyLookupsAgreeWithFindValue ==
  last.op \in {"FindKey", "FindKeyValue"} =>
    LET fv == FindValue(gtree, last.arg)
    IN /\ last.err = fv.err
       /\ last.err = NoErr =>
            /\ last.key \in StoredKeys
            /\ IsPrefix(last.arg, last.key)
            /\ fv.value = stored[last.key]
            /\ last.op = "FindKeyValue" => last.value = stored[last.key]

C17_Witness ==
  /\ last.op = "FindKeyValue"
  /\ last.err = NoErr
  /\ last.key # last.arg
  /\ Cardinality(StoredKeys) >= 2

\* C18 as stated: on any tree holding at least two stored keys, the
\* single-result lookup of the empty prefix returns ErrPrefixAmbiguous.
SingleLookups == {"Find", "FindKey", "FindValue"}

C18_EmptyPrefixAmbiguous ==
  (last.op \in SingleLookups /\ last.arg = <<>> /\ Cardinality(StoredKeys) >= 2)
    => last.err = ErrPrefixAmbiguous

\* C18 amended: on any tree holding at least two stored keys, none of them
\* the empty string, the single-result lookup of the empty prefix returns
\* ErrPrefixAmbiguous.
C18_EmptyPrefixAmbiguousUnlessStored ==
  (/\ last.op \in SingleLookups
   /\ last.arg = <<>>
   /\ Cardinality(StoredKeys) >= 2
   /\ <<>> \notin StoredKeys)
    => last.err = ErrPrefixAmbiguous

C18_Witness ==
  /\ last.op = "Find"
  /\ last.arg = <<>>
  /\ Cardinality(StoredKeys) >= 2
  /\ <<>> \notin StoredKeys
  /\ last.err = ErrPrefixAmbiguous

\* labels non-empty, strictly ascending, pairwise different in their first byte
LabelsWellFormed(labels) ==
  /\ \A i \in 1..Len(labels) : Len(labels[i]) > 0
  /\ \A i \in 1..(Len(labels) - 1) : StrLT(labels[i], labels[i + 1])
  /\ \A i, j \in 1..Len(labels) : i # j => labels[i][1] # labels[j][1]

RECURSIVE LinksWellFormed(_)
LinksWellFormed(t) ==
  /\ LabelsWellFormed([i \in 1..Len(t.links) |-> t.links[i].str])
  /\ \A i \in 1..Len(t.links) : LinksWellFormed(t.links[i].tree)

RECURSIVE LinksWellFormedG(_)
LinksWellFormedG(t) ==
  /\ LabelsWellFormed([i \in 1..Len(t.links) |-> t.links[i].keyseg])
  /\ \A i \in 1..Len(t.links) : LinksWellFormedG(t.links[i].tree)

\* C19: after every Add, at every node the link labels are non-empty, strictly
\* sorted, and no two sibling labels start with the same byte; link splits and
\* link insertions preserve this.
C19_SiblingLabelsSortedPrefixFree ==
  LinksWellFormed(tree) /\ LinksWellFormedG(gtree)

C19_Witness ==
  /\ last.op = "Add"
  /\ Len(tree.links) >= 2
  /\ \E i \in 1..Len(tree.links) : Len(tree.links[i].tree.links) >= 2

\* the concatenations of link labels from t down to each terminal node
RECURSIVE TerminalPaths(_, _)
TerminalPaths(t, path) ==
  (IF t.terminal THEN {path} ELSE {})
    \cup UNION {TerminalPaths(t.links[i].tree, path \o t.links[i].str) :
                  i \in 1..Len(t.links)}

RECURSIVE TerminalPathsG(_, _)
TerminalPathsG(t, path) ==
  (IF isTerminal(t) THEN {path} ELSE {})
    \cup UNION {TerminalPathsG(t.links[i].tree, path \o t.links[i].keyseg) :
                  i \in 1..Len(t.links)}

\* every terminal node of the generic tree stores the concatenation leading to it
RECURSIVE KeysMatchPaths(_, _)
KeysMatchPaths(t, path) ==
  /\ isTerminal(t) => t.key = path
  /\ \A i \in 1..Len(t.links) :
       KeysMatchPaths(t.links[i].tree, path \o t.links[i].keyseg)

\* C20: after every Add, the label concatenations from the root to the
\* terminal nodes are exactly the keys added so far, and the key stored at a
\* terminal node equals its concatenation.
C20_TerminalPathsAreAddedKeys ==
  /\ TerminalPaths(tree, <<>>) = StoredKeys
  /\ TerminalPathsG(gtree, <<>>) = StoredKeys
  /\ KeysMatchPaths(gtree, <<>>)

\* C16: at every node, whatever its number of links, choosing the candidates
\* by binary search resolves a prefix to the same node and outcome as scanning
\* all links; so findSubtree on a tree with a node of 20 or more links agrees
\* with the linear lookup.
C16_BinarySearchEquivalence ==
  last.op = "Find" =>
    LET linear == ResolveBy("linear", tree, last.arg)
    IN /\ ResolveBy("binary", tree, last.arg) = linear
       /\ findSubtree(tree, last.arg) = linear
       /\ last.err = linear.err
       /\ linear.err = NoErr => last.value = linear.st.value

C16_Witness ==
  /\ last.op = "Find"
  /\ Len(tree.links) >= 20
  /\ last.err = NoErr
  /\ \E i \in 1..Len(tree.links) :
       /\ Len(tree.links[i].str) < Len(last.arg)
       /\ tree.links[i].str = Upto(last.arg, Len(tree.links[i].str))

\* at t and at every node below it, a descendants counter of 1 means terminal
RECURSIVE CountOneIsTerminal(_)
CountOneIsTerminal(t) ==
  /\ t.descendants = 1 => t.terminal
  /\ \A i \in 1..Len(t.links) : CountOneIsTerminal(t.links[i].tree)

RECURSIVE CountOneIsTerminalG(_)
CountOneIsTerminalG(t) ==
  /\ t.descendants = 1 => isTerminal(t)
  /\ \A i \in 1..Len(t.links) : CountOneIsTerminalG(t.links[i].tree)

\* C21 as stated: in every reachable tree, every node whose descendants
\* counter equals 1 is itself terminal, the root included.
C21_CountOneIsTerminal == CountOneIsTerminal(tree)

\* C21 amended: in every reachable tree, every node other than the root whose
\* descendants counter equals 1 is itself terminal.
C21_CountOneIsTerminalBelowRoot ==
  /\ \A i \in 1..Len(tree.links) : CountOneIsTerminal(tree.links[i].tree)
  /\ \A i \in 1..Len(gtree.links) : CountOneIsTerminalG(gtree.links[i].tree)

C21_Witness ==
  /\ last.op = "Add"
  /\ \E i \in 1..Len(tree.links) :
       LET n == tree.links[i].tree
       IN /\ ~n.terminal
          /\ Len(n.links) = 2
          /\ \A j \in 1..2 : n.links[j].tree.descendants = 1

\* the label concatenations from t down to every node below it
RECURSIVE NodePaths(_, _)
NodePaths(t, path) ==
  UNION {{path \o t.links[i].str}
           \cup NodePaths(t.links[i].tree, path \o t.links[i].str) :
         i \in 1..Len(t.links)}

RECURSIVE NodePathsG(_, _)
NodePathsG(t, path) ==
  UNION {{path \o t.links[i].keyseg}
           \cup NodePathsG(t.links[i].tree, path \o t.links[i].keyseg) :
         i \in 1..Len(t.links)}

\* the prefix runs along the links of the tree: it is consumed at a node or
\* in the middle of a link
OnSomePath(paths, p) == \E q \in paths : IsPrefix(p, q)

\* C22: the defensive NotFound branch of resolution (prefix consumed in the
\* middle of a link whose target has descendants <= 1 and is not terminal) is
\* never taken: a prefix that runs along the links of the tree never resolves
\* to ErrPrefixNotFound.
C22_DefensiveBranchNeverTaken ==
  /\ (last.op = "Find" /\ OnSomePath(NodePaths(tree, <<>>), last.arg))
       => last.err # ErrPrefixNotFound
  /\ (last.op \in {"FindKey", "FindValue"}
        /\ OnSomePath(NodePathsG(gtree, <<>>), last.arg))
       => last.err # ErrPrefixNotFound

C22_Witness ==
  /\ last.op = "Find"
  /\ last.err = NoErr
  /\ last.arg \notin NodePaths(tree, <<>>)
  /\ OnSomePath(NodePaths(tree, <<>>), last.arg)
  /\ Cardinality(StoredKeys) >= 2

\* C23: the index never shrinks: once a key k has been added, the exact lookup
\* of k succeeds with k's latest value after every later Add of another key,
\* Adds that split the link leading to k's node included.
C23_AddOfOtherKeyKeepsKey ==
  [][\A k \in Keys :
       (adds[k] > 0 /\ adds' # adds /\ adds'[k] = adds[k])
         => Find(tree', k) = [value |-> stored[k], err |-> NoErr]]_vars

C23_Witness ==
  /\ last.op = "Add"
  /\ Cardinality(StoredKeys) = 3
  /\ \A k \in StoredKeys : Find(tree, k) = [value |-> stored[k], err |-> NoErr]
  /\ \E i \in 1..Len(tree.links) :
       /\ ~tree.links[i].tree.terminal
       /\ Len(tree.links[i].tree.links) = 2

AllReturned == \A g \in Goroutines : goroutine[g].pc = "idle"

\* the structural invariants of the tree the heap holds
StructureKept(t) ==
  /\ LinksWellFormed(t)
  /\ TerminalPaths(t, <<>>) = StoredKeys
  /\ DescendantsExact(t)

\* C25: two Adds whose steps interleave can reach a tree that violates the
\* structural invariants, whereas every serial order of the same two Adds
\* keeps them: after Adds that did not overlap, labels are sorted with
\* distinct first bytes, no key is lost, and every counter is the number of
\* terminal nodes below it.
C25_SerialAddsKeepStructure ==
  (AllReturned /\ ~overlapped) => StructureKept(TreeAt(heap, 1))

\* C26: every Add and every lookup terminates: a turn of the descent loop
\* either returns or strictly shortens the remaining key or prefix by at least
\* one byte, so a call makes at most len(key) + 1 turns.
C26_TurnsShortenKey ==
  [][\A g \in Goroutines :
       /\ goroutine'[g].turns <= Len(goroutine'[g].whole) + 1
       /\ (goroutine[g].turns > 0 /\ goroutine'[g].turns = goroutine[g].turns + 1)
            => Len(goroutine'[g].key) < Len(goroutine[g].key)]_vars

C26_Witness ==
  /\ goroutine[1].pc = "find"
  /\ Len(goroutine[1].whole) = MaxKeyLen
  /\ goroutine[1].turns = MaxKeyLen + 1
  /\ \E i \in 1..Len(heap.arrays) : Len(heap.arrays[i]) = 2

\* C27: whenever a single-result lookup returns an error, the accompanying
\* result is the zero value (nil / zero V, empty key, empty KeyValue), also
\* when the prefix resolved to an ambiguous node that holds an entry.
C27_ErrorMeansZeroResult ==
  last.err # NoErr =>
    /\ last.op \in {"Find", "FindValue", "FindKeyValue"} => last.value = Nil
    /\ last.op \in {"FindKey", "FindKeyValue"} => last.key = <<>>

C27_Witness ==
  /\ last.op = "FindKeyValue"
  /\ last.err = ErrPrefixAmbiguous
  /\ isTerminal(findSubtreeG(gtree, last.arg).st)
  /\ findSubtreeG(gtree, last.arg).st.value # Nil

====
